---- MODULE Spec2Model ----
(***************************************************************************)
(* Model of the toronto-open-data client: the catalog client (api.py), the *)
(* facade TorontoOpenData (core.py) and the collaborators the facade       *)
(* delegates to (file cache, loader dispatcher, configuration).            *)
(*                                                                         *)
(* The remote catalog, the transport used for downloads and the loading    *)
(* libraries are the environment: their outcomes are chosen                *)
(* nondeterministically in every call.                                     *)
(***************************************************************************)
EXTENDS Integers, Sequences, FiniteSets, TLC

(***************************************************************************)
(* Bounds and value universes                                              *)
(***************************************************************************)
\* longest resource list the catalog publishes for a dataset
MaxResources == 2

\* names a caller may pass as dataset name; only Listable ones are ever
\* published by the catalog
DatasetNames == {"budget", "nonexistent"}
Listable == {"budget"}

\* resource names (unique within a dataset's resource list)
FileNames == {"2023.csv", "2023.pdf"}

\* Python's None for an omitted filename / an absent return value
None == "<None>"
\* a null url in the catalog's resource metadata
Null == "<null>"

\* the catalog's entry of a dataset that is not published
NotListed == [listed |-> FALSE, resources |-> <<>>]

\* declared formats, as sequences of characters, that the catalog gives
\* each resource
FormatsOf(f) ==
  IF f = "2023.csv" THEN { <<"c","s","v">>, <<"C","S","V">> }
                    ELSE { <<"p","d","f">> }

Resources ==
  UNION { [name : {f}, format : FormatsOf(f), url : {Null, "http://x"}] :
          f \in FileNames }

UniqueNames(rs) ==
  \A i, j \in DOMAIN rs : rs[i].name = rs[j].name => i = j

\* the resource lists a published dataset can have
ResourceLists ==
  { rs \in UNION { [1..n -> Resources] : n \in 0..MaxResources } : UniqueNames(rs) }

Entries ==
  { [listed |-> TRUE, resources |-> rs] : rs \in ResourceLists } \cup {NotListed}

Catalogs == [Listable -> Entries]

\* faults the remote catalog query can end in other than "does not exist"
InjectedFaults == {"ConnectionError", "NotAuthorized", "CKANAPIError"}

\* what the environment does to one call: nothing, a fault of the catalog
\* query, a failing transport call or a failing loading library
Outcomes == InjectedFaults \cup {"none", "DownloadFails", "LoaderFails"}
FaultOf(env) == IF env \in InjectedFaults THEN env ELSE "none"

VARIABLES
  catalog,    \* the remote catalog: dataset name -> its entry
  cache,      \* the cache directory: set of <<dataset, resource>> with a file
  succeeded,  \* history: pairs whose transport call completed successfully
  last        \* observation of the most recent call and what it did

vars == <<catalog, cache, succeeded, last>>


(***************************************************************************)
(* Catalog Client (api.py)                                                 *)
(***************************************************************************)
\* The remote package_show action: the resource list of a published
\* dataset, the catalog's NotFound fault for an unpublished one, or the
\* fault the environment injects into this query.
package_show(cat, name, fault) ==
  IF fault # "none"
    THEN [fault |-> fault, resources |-> <<>>]
    ELSE IF name \in Listable /\ cat[name].listed
           THEN [fault |-> "none", resources |-> cat[name].resources]
           ELSE [fault |-> "NotFound", resources |-> <<>>]

\* "except CKANAPIError": NotFound, NotAuthorized, ... all derive from
\* CKANAPIError, and a malformed response raises CKANAPIError itself; a
\* network failure is raised by the transport and is not a CKANAPIError.
IsCKANAPIError(f) == f \in {"NotFound", "NotAuthorized", "CKANAPIError"}

\* pd.DataFrame(result): the columns are the keys found in the rows, so the
\* frame of an empty list has no column at all.
DataFrame(result) ==
  [columns |-> IF result = <<>> THEN {} ELSE {"name", "format", "url"},
   rows    |-> result]

\* the value of a call: raised = "none" on a normal return
get_dataset_resources(cat, name, as_frame, fault) ==
  LET resp == package_show(cat, name, fault)
      ret  == [raised |-> "none", remote |-> resp.fault, isNone |-> FALSE,
               frame |-> as_frame, columns |-> {}, rows |-> <<>>]
  IN  IF resp.fault # "none"
        THEN IF IsCKANAPIError(resp.fault)
               THEN [ret EXCEPT !.isNone = TRUE]
               ELSE [ret EXCEPT !.raised = resp.fault]
        ELSE IF as_frame
               THEN [ret EXCEPT !.columns = DataFrame(resp.resources).columns,
                                !.rows = DataFrame(resp.resources).rows]
               ELSE [ret EXCEPT !.rows = resp.resources]

get_dataset_info(cat, name, fault) ==
  LET resp == package_show(cat, name, fault)
      ret  == [raised |-> "none", remote |-> resp.fault, isNone |-> FALSE,
               frame |-> FALSE, columns |-> {}, rows |-> <<>>]
  IN  IF resp.fault # "none"
        THEN IF IsCKANAPIError(resp.fault)
               THEN [ret EXCEPT !.isNone = TRUE]
               ELSE [ret EXCEPT !.raised = resp.fault]
        ELSE [ret EXCEPT !.rows = resp.resources]


(***************************************************************************)
(* Observation of a call                                                   *)
(***************************************************************************)
Range(q) == { q[i] : i \in DOMAIN q }

\* a call that has done nothing yet and returns nothing
Obs(op, name, filename, force, smart) ==
  [op |-> op, name |-> name, filename |-> filename, force |-> force,
   smart |-> smart,
   remote |-> "none",      \* fault the remote catalog answered with
   status |-> "return",    \* "return" or "raise"
   exc |-> "none",         \* class of the raised error
   msg |-> "none",         \* which message a ValueError carries
   options |-> <<>>,       \* the alternatives listed in the message
   vkind |-> "none",       \* kind of the returned value
   path |-> <<>>, names |-> <<>>, flag |-> FALSE, rows |-> <<>>,
   queries |-> 0,          \* catalog queries issued
   downloads |-> <<>>,     \* download_file invocations, in order
   transports |-> <<>>,    \* transport calls attempted, in order
   loads |-> <<>>]         \* load_file invocations, in order

Raise(o, exc, msg, options) ==
  [o EXCEPT !.status = "raise", !.exc = exc, !.msg = msg, !.options = options]

(***************************************************************************)
(* Configuration, File Cache and Loader Dispatcher                         *)
(***************************************************************************)
\* config.SMART_RETURN_FILETYPES
SMART_RETURN_FILETYPES ==
  { <<"c","s","v">>, <<"j","s","o","n">>, <<"x","l","s","x">> }

\* FileCache.get_file_path: <cache root>/<dataset>/<resource>
get_file_path(dataset, resource) == <<"cache", dataset, resource>>

\* FileCache.file_exists
file_exists(c, dataset, resource) == <<dataset, resource>> \in c

\* FileCache.download_file; ok is the outcome of the transport call, which
\* is consulted only when a transport call is made.
download_file(c, dataset, resource, url, force, ok) ==
  LET hit == file_exists(c, dataset, resource) /\ ~force
  IN  [transport |-> ~hit,
       failed    |-> ~hit /\ ~ok,
       cache     |-> IF ~hit /\ ok THEN c \cup {<<dataset, resource>>} ELSE c,
       path      |-> get_file_path(dataset, resource)]

\* one step of FileCache.download_dataset's loop over the resources;
\* failAt is the position whose transport call fails (0: none fails)
RECURSIVE batch(_, _, _, _, _, _)
batch(acc, dataset, resources, force, failAt, i) ==
  IF i > Len(resources) \/ acc.failed
    THEN acc
    ELSE LET r == resources[i]
         IN  IF r.url = Null
               THEN batch(acc, dataset, resources, force, failAt, i + 1)
               ELSE LET dl == download_file(acc.cache, dataset, r.name, r.url,
                                            force, failAt # i)
                    IN  batch([cache |-> dl.cache,
                               names |-> IF dl.failed THEN acc.names
                                         ELSE Append(acc.names, r.name),
                               downloads |-> Append(acc.downloads,
                                   <<dataset, r.name, r.url, force>>),
                               transports |-> IF dl.transport
                                   THEN Append(acc.transports,
                                          <<dataset, r.name, r.url, ~dl.failed>>)
                                   ELSE acc.transports,
                               failed |-> dl.failed],
                              dataset, resources, force, failAt, i + 1)

\* FileCache.download_dataset
cache_download_dataset(c, dataset, resources, force, failAt) ==
  batch([cache |-> c, names |-> <<>>, downloads |-> <<>>,
         transports |-> <<>>, failed |-> FALSE],
        dataset, resources, force, failAt, 1)

\* loader_factory.load_file; ok is the outcome of the loading library
load_file(file_path, file_type, ok) ==
  [failed |-> ~ok, object |-> <<"loaded", file_path, file_type>>]


(***************************************************************************)
(* Facade (core.py)                                                        *)
(***************************************************************************)
\* str.lower() on the characters the formats use
LowerChar(ch) ==
  CASE ch = "C" -> "c" [] ch = "S" -> "s" [] ch = "V" -> "v"
    [] ch = "P" -> "p" [] ch = "D" -> "d" [] ch = "F" -> "f"
    [] OTHER -> ch

Lower(str) == [i \in DOMAIN str |-> LowerChar(str[i])]

\* dataset['name'].values
NameValues(rows) == [i \in DOMAIN rows |-> rows[i].name]

\* dataset[dataset['name'] == filename].iloc[0]
FirstNamed(rows, filename) ==
  rows[CHOOSE i \in DOMAIN rows :
         /\ rows[i].name = filename
         /\ \A j \in DOMAIN rows : rows[j].name = filename => i <= j]

isna_never(url) == FALSE

\* pd.isna(url)
isna(url) == url = Null

file_type_as_declared(format) == format

\* file_info['format'].lower()
file_type_of(format) == Lower(format)

\* smart_return and file_type in config.SMART_RETURN_FILETYPES
smart_return_applies(smart_return, file_type) ==
  smart_return /\ file_type \in SMART_RETURN_FILETYPES

load_download_no_reload(c, name, filename, url, reload, ok) ==
  download_file(c, name, filename, url, FALSE, ok)

\* self.cache.download_file(name, filename, url, reload)
load_download(c, name, filename, url, reload, ok) ==
  download_file(c, name, filename, url, reload, ok)

\* load, from the answer r of the catalog query on: the checks, the
\* download and the optional hand-over to the loader
load_resolved(r, o, c, name, filename, reload, smart_return, dlOk, ldOk) ==
  IF r.raised # "none"
    THEN [obs |-> Raise(o, r.raised, "none", <<>>), cache |-> c]
  ELSE IF r.isNone
    THEN [obs |-> Raise(o, "ValueError", "DatasetNotFound", <<>>), cache |-> c]
  ELSE IF filename = None
    THEN IF "name" \notin r.columns
           THEN [obs |-> Raise(o, "KeyError", "none", <<>>), cache |-> c]
           ELSE [obs |-> Raise(o, "ValueError", "ListOptions",
                               NameValues(r.rows)),
                 cache |-> c]
  ELSE IF "name" \notin r.columns
    THEN [obs |-> Raise(o, "KeyError", "none", <<>>), cache |-> c]
  ELSE IF filename \notin Range(NameValues(r.rows))
    THEN [obs |-> Raise(o, "ValueError", "FileNotFound", NameValues(r.rows)),
          cache |-> c]
  ELSE
    LET file_info == FirstNamed(r.rows, filename)
        url       == file_info.url
    IN  IF isna(url)
          THEN [obs |-> Raise(o, "ValueError", "MissingURL", <<>>), cache |-> c]
          ELSE
            LET file_type == file_type_of(file_info.format)
                dl == load_download(c, name, filename, url, reload, dlOk)
                o1 == [o EXCEPT
                         !.downloads = <<<<name, filename, url, reload>>>>,
                         !.transports = IF dl.transport
                             THEN <<<<name, filename, url, ~dl.failed>>>>
                             ELSE <<>>]
            IN  IF dl.failed
                  THEN [obs |-> Raise(o1, "HTTPError", "none", <<>>),
                        cache |-> dl.cache]
                ELSE IF smart_return_applies(smart_return, file_type)
                  THEN LET ld == load_file(dl.path, file_type, ldOk)
                           o2 == [o1 EXCEPT !.loads = <<<<dl.path, file_type>>>>]
                       IN  IF ld.failed
                             THEN [obs |-> Raise(o2, "LoaderError", "none", <<>>),
                                   cache |-> dl.cache]
                             ELSE [obs |-> [o2 EXCEPT !.vkind = "object",
                                                      !.path = dl.path],
                                   cache |-> dl.cache]
                  ELSE [obs |-> [o1 EXCEPT !.vkind = "path", !.path = dl.path],
                        cache |-> dl.cache]

\* a load that serves a cached file without asking the catalog
load_cache_first(cat, c, name, filename, reload, smart_return, fault, dlOk, ldOk) ==
  LET o == Obs("load", name, filename, reload, smart_return)
  IN  IF filename # None /\ file_exists(c, name, filename) /\ ~reload
        THEN [obs |-> [o EXCEPT !.vkind = "path",
                                !.path = get_file_path(name, filename)],
              cache |-> c]
        ELSE LET r == get_dataset_resources(cat, name, TRUE, fault)
             IN  load_resolved(r, [o EXCEPT !.queries = 1, !.remote = r.remote],
                               c, name, filename, reload, smart_return, dlOk, ldOk)

\* TorontoOpenData.load
load(cat, c, name, filename, reload, smart_return, fault, dlOk, ldOk) ==
  LET r == get_dataset_resources(cat, name, TRUE, fault)
      o == [Obs("load", name, filename, reload, smart_return)
              EXCEPT !.queries = 1, !.remote = r.remote]
  IN  load_resolved(r, o, c, name, filename, reload, smart_return, dlOk, ldOk)


download_dataset_all_names(cat, c, name, overwrite, fault, failAt) ==
  LET resources == get_dataset_resources(cat, name, FALSE, fault)
      o == [Obs("download_dataset", name, None, overwrite, FALSE)
              EXCEPT !.queries = 1, !.remote = resources.remote]
  IN  IF resources.raised # "none"
        THEN [obs |-> Raise(o, resources.raised, "none", <<>>), cache |-> c]
      ELSE IF resources.isNone
        THEN [obs |-> Raise(o, "ValueError", "DatasetNotFound", <<>>),
              cache |-> c]
      ELSE
        LET b  == cache_download_dataset(c, name, resources.rows, overwrite,
                                         failAt)
            o1 == [o EXCEPT !.downloads = b.downloads,
                            !.transports = b.transports]
        IN  IF b.failed
              THEN [obs |-> Raise(o1, "HTTPError", "none", <<>>),
                    cache |-> b.cache]
              ELSE [obs |-> [o1 EXCEPT !.vkind = "names",
                                       !.names = NameValues(resources.rows)],
                    cache |-> b.cache]

\* TorontoOpenData.download_dataset
download_dataset(cat, c, name, overwrite, fault, failAt) ==
  LET resources == get_dataset_resources(cat, name, FALSE, fault)
      o == [Obs("download_dataset", name, None, overwrite, FALSE)
              EXCEPT !.queries = 1, !.remote = resources.remote]
  IN  IF resources.raised # "none"
        THEN [obs |-> Raise(o, resources.raised, "none", <<>>), cache |-> c]
      ELSE IF resources.isNone
        THEN [obs |-> Raise(o, "ValueError", "DatasetNotFound", <<>>),
              cache |-> c]
      ELSE
        LET b  == cache_download_dataset(c, name, resources.rows, overwrite,
                                         failAt)
            o1 == [o EXCEPT !.downloads = b.downloads,
                            !.transports = b.transports]
        IN  IF b.failed
              THEN [obs |-> Raise(o1, "HTTPError", "none", <<>>),
                    cache |-> b.cache]
              ELSE [obs |-> [o1 EXCEPT !.vkind = "names", !.names = b.names],
                    cache |-> b.cache]

get_available_files_or_empty(cat, name, fault) ==
  LET dataset == get_dataset_resources(cat, name, TRUE, fault)
      o == [Obs("get_available_files", name, None, FALSE, FALSE)
              EXCEPT !.queries = 1, !.remote = dataset.remote]
  IN  IF dataset.raised # "none"
        THEN Raise(o, dataset.raised, "none", <<>>)
      ELSE IF dataset.isNone \/ "name" \notin dataset.columns
        THEN [o EXCEPT !.vkind = "names", !.names = <<>>]
      ELSE [o EXCEPT !.vkind = "names", !.names = NameValues(dataset.rows)]

\* TorontoOpenData.get_available_files
get_available_files(cat, name, fault) ==
  LET dataset == get_dataset_resources(cat, name, TRUE, fault)
      o == [Obs("get_available_files", name, None, FALSE, FALSE)
              EXCEPT !.queries = 1, !.remote = dataset.remote]
  IN  IF dataset.raised # "none"
        THEN Raise(o, dataset.raised, "none", <<>>)
      ELSE IF dataset.isNone
        THEN Raise(o, "ValueError", "DatasetNotFound", <<>>)
      ELSE IF "name" \notin dataset.columns
        THEN Raise(o, "KeyError", "none", <<>>)
      ELSE [o EXCEPT !.vkind = "names", !.names = NameValues(dataset.rows)]

is_file_cached_any_file(c, name, filename) ==
  [Obs("is_file_cached", name, filename, FALSE, FALSE)
     EXCEPT !.vkind = "bool",
            !.flag = \E f \in FileNames : file_exists(c, name, f)]

\* TorontoOpenData.is_file_cached
is_file_cached(c, name, filename) ==
  [Obs("is_file_cached", name, filename, FALSE, FALSE)
     EXCEPT !.vkind = "bool", !.flag = file_exists(c, name, filename)]

\* the observation of a direct Catalog Client call with answer r
ClientObs(op, name, r) ==
  LET o == [Obs(op, name, None, FALSE, FALSE)
              EXCEPT !.queries = 1, !.remote = r.remote]
  IN  IF r.raised # "none" THEN Raise(o, r.raised, "none", <<>>)
      ELSE IF r.isNone THEN [o EXCEPT !.vkind = "None"]
      ELSE [o EXCEPT !.vkind = "resources", !.rows = r.rows]

\* TorontoOpenData.search_resources_by_name
search_resources_by_name(cat, name, as_frame, fault) ==
  ClientObs("get_dataset_resources", name,
            get_dataset_resources(cat, name, as_frame, fault))

\* TorontoOpenData.get_dataset_info
facade_get_dataset_info(cat, name, fault) ==
  ClientObs("get_dataset_info", name, get_dataset_info(cat, name, fault))

(***************************************************************************)
(* The state machine                                                       *)
(***************************************************************************)
Bool == {TRUE, FALSE}
Faults == InjectedFaults \cup {"none"}

\* pairs whose transport call in the observed call completed successfully
Completed(o) == { <<t[1], t[2]>> : t \in { u \in Range(o.transports) : u[4] } }

Init ==
  /\ catalog \in Catalogs
  /\ cache = {}
  /\ succeeded = {}
  /\ last = Obs("init", None, None, FALSE, FALSE)

\* the portal publishes, changes or withdraws a dataset
CatalogChange ==
  /\ \E cat \in Catalogs : cat # catalog /\ catalog' = cat
  /\ last' = Obs("catalog_change", None, None, FALSE, FALSE)
  /\ UNCHANGED <<cache, succeeded>>

Load ==
  \E name \in DatasetNames, filename \in FileNames \cup {None},
     reload \in Bool, smart_return \in Bool, env \in Outcomes :
    LET res == load(catalog, cache, name, filename, reload, smart_return,
                    FaultOf(env), env # "DownloadFails", env # "LoaderFails")
    IN  /\ last' = res.obs
        /\ cache' = res.cache
        /\ succeeded' = succeeded \cup Completed(res.obs)
        /\ UNCHANGED catalog

DownloadDataset ==
  \E name \in DatasetNames, overwrite \in Bool, fault \in Faults,
     failAt \in 0..MaxResources :
    LET res == download_dataset(catalog, cache, name, overwrite, fault, failAt)
    IN  /\ last' = res.obs
        /\ cache' = res.cache
        /\ succeeded' = succeeded \cup Completed(res.obs)
        /\ UNCHANGED catalog

GetAvailableFiles ==
  \E name \in DatasetNames, fault \in Faults :
    /\ last' = get_available_files(catalog, name, fault)
    /\ UNCHANGED <<catalog, cache, succeeded>>

IsFileCached ==
  \E name \in DatasetNames, filename \in FileNames :
    /\ last' = is_file_cached(cache, name, filename)
    /\ UNCHANGED <<catalog, cache, succeeded>>

SearchResourcesByName ==
  \E name \in DatasetNames, as_frame \in Bool, fault \in Faults :
    /\ last' = search_resources_by_name(catalog, name, as_frame, fault)
    /\ UNCHANGED <<catalog, cache, succeeded>>

GetDatasetInfo ==
  \E name \in DatasetNames, fault \in Faults :
    /\ last' = facade_get_dataset_info(catalog, name, fault)
    /\ UNCHANGED <<catalog, cache, succeeded>>

\* a direct call of the File Cache's download_file (self.cache is public)
DownloadFile ==
  \E dataset \in Listable, resource \in FileNames, force \in Bool,
     ok \in Bool :
    LET dl == download_file(cache, dataset, resource, "http://x", force, ok)
        o  == [Obs("download_file", dataset, resource, force, FALSE)
                 EXCEPT !.downloads = <<<<dataset, resource, "http://x", force>>>>,
                        !.transports = IF dl.transport
                            THEN <<<<dataset, resource, "http://x", ~dl.failed>>>>
                            ELSE <<>>]
    IN  /\ last' = IF dl.failed THEN Raise(o, "HTTPError", "none", <<>>)
                   ELSE [o EXCEPT !.vkind = "path", !.path = dl.path]
        /\ cache' = dl.cache
        /\ succeeded' = succeeded \cup Completed(o)
        /\ UNCHANGED catalog

Next ==
  \/ CatalogChange
  \/ Load
  \/ DownloadDataset
  \/ GetAvailableFiles
  \/ IsFileCached
  \/ SearchResourcesByName
  \/ GetDatasetInfo
  \/ DownloadFile

Spec == Init /\ [][Next]_vars


(***************************************************************************)
(* Properties                                                              *)
(*                                                                         *)
(* No call changes the catalog, and a catalog change resets last, so in    *)
(* every state the catalog is the one the observed call was answered from. *)
(***************************************************************************)
Published(name) == name \in Listable /\ catalog[name].listed

ResourcesOf(name) == IF Published(name) THEN catalog[name].resources ELSE <<>>

\* the resources of the dataset that carry the given name
Named(name, filename) ==
  { r \in Range(ResourcesOf(name)) : r.name = filename }

NeedsResources == {"load", "download_dataset", "get_available_files"}

HasUrl(r) == r.url # Null

\* C1: a call of load, download_dataset or get_available_files for a dataset
\* the catalog does not publish never returns normally and never invokes
\* download_file or the transport; unless the catalog query itself fails in
\* transport (that fault propagates), it raises the dataset-not-found
\* ValueError.
C1_AbsentDatasetSignalsNotFound ==
  (last.op \in NeedsResources /\ ~Published(last.name)) =>
     /\ last.status = "raise"
     /\ last.downloads = <<>>
     /\ last.transports = <<>>
     /\ last.remote # "ConnectionError" =>
          last.exc = "ValueError" /\ last.msg = "DatasetNotFound"

\* C1 witness: load of a withdrawn dataset whose file is still cached
C1_Witness ==
  /\ last.op = "load"
  /\ ~Published(last.name)
  /\ last.remote = "NotFound"
  /\ last.msg = "DatasetNotFound"
  /\ <<last.name, last.filename>> \in cache

\* C2: in get_dataset_resources and get_dataset_info the absent value is
\* returned only for the catalog's NotFound fault, and every other remote
\* fault is raised unchanged.
C2_OnlyNotFoundBecomesAbsent ==
  last.op \in {"get_dataset_resources", "get_dataset_info"} =>
     /\ last.vkind = "None" => last.remote = "NotFound"
     /\ last.remote \notin {"none", "NotFound"} =>
          last.status = "raise" /\ last.exc = last.remote

\* C3: when the catalog answers with the resource list of a published
\* dataset, load of a resource whose url is null raises the missing-URL
\* ValueError whatever reload and smart_return are, invokes neither
\* download_file nor the transport, and leaves the cache as it was.
C3_NullUrlNeverDownloaded ==
  [][ ( /\ last'.op = "load"
        /\ last'.remote = "none"
        /\ \E r \in Named(last'.name, last'.filename) : ~HasUrl(r) )
      =>
      ( /\ last'.status = "raise"
        /\ last'.exc = "ValueError"
        /\ last'.msg = "MissingURL"
        /\ last'.downloads = <<>>
        /\ last'.transports = <<>>
        /\ last'.loads = <<>>
        /\ cache' = cache ) ]_vars

\* C3 witness: a forced, smart load of a cached file whose url became null
C3_Witness ==
  /\ last.op = "load"
  /\ last.force
  /\ last.smart
  /\ last.msg = "MissingURL"
  /\ \E r \in Named(last.name, last.filename) : ~HasUrl(r)
  /\ <<last.name, last.filename>> \in cache


\* names of the published datasets, the alternatives to an unknown dataset
PublishedNames ==
  IF Published("budget") THEN <<"budget">> ELSE <<>>

\* the observed call ended in a not-found outcome: the catalog answered and
\* the dataset, or the requested file, is not there
DatasetMissing ==
  /\ last.op \in NeedsResources
  /\ last.remote = "NotFound"

FileMissing ==
  /\ last.op = "load"
  /\ last.remote = "none"
  /\ last.filename # None
  /\ Named(last.name, last.filename) = {}

\* C4: every not-found outcome of a facade call (dataset absent, or file
\* absent from the resource list, an empty list included) is raised as the
\* descriptive ValueError and carries the list of valid alternatives.
C4_NotFoundIsDescriptive ==
  /\ DatasetMissing =>
       /\ last.status = "raise"
       /\ last.exc = "ValueError"
       /\ last.msg = "DatasetNotFound"
       /\ last.options = PublishedNames
  /\ FileMissing =>
       /\ last.status = "raise"
       /\ last.exc = "ValueError"
       /\ last.msg = "FileNotFound"
       /\ last.options = NameValues(ResourcesOf(last.name))

\* C5: download_file makes a transport call exactly when force is set or
\* the pair has no cache entry, directly and through load (reload as the
\* force flag); a call without force that follows a completed call for the
\* same pair makes no transport call and returns the same path.
C5_TransportIffForcedOrMissing ==
  [][ /\ ( last'.op \in {"download_file", "load"} /\ last'.downloads # <<>> ) =>
           /\ last'.downloads =
                <<<<last'.name, last'.filename, "http://x", last'.force>>>>
           /\ Len(last'.transports) =
                IF last'.force \/ <<last'.name, last'.filename>> \notin cache
                  THEN 1 ELSE 0
      /\ ( /\ last.op \in {"download_file", "load"}
           /\ last.vkind \in {"path", "object"}
           /\ last'.op = last.op
           /\ last'.name = last.name
           /\ last'.filename = last.filename
           /\ ~last'.force
           /\ last'.downloads # <<>> ) =>
           /\ last'.transports = <<>>
           /\ last'.exc # "HTTPError"
           /\ last'.status = "return" => last'.path = last.path
           /\ ~last.force => Len(last.transports) + Len(last'.transports) <= 1
    ]_vars

\* C5 witness: a load without reload served from the cache, no transport
C5_Witness ==
  /\ last.op = "load"
  /\ ~last.force
  /\ last.downloads # <<>>
  /\ last.transports = <<>>
  /\ last.vkind = "path"

RECURSIVE WithUrl(_)
\* the names of the resources that have a url, in the order of the list
WithUrl(rs) ==
  IF rs = <<>> THEN <<>>
  ELSE IF HasUrl(Head(rs)) THEN <<Head(rs).name>> \o WithUrl(Tail(rs))
  ELSE WithUrl(Tail(rs))

\* C6: when the catalog answers with the resource list of a published
\* dataset, download_dataset fails only if a transport call failed;
\* otherwise it returns the names of the resources that have a url, in the
\* order of the list; url-less resources are neither downloaded nor
\* returned, and every returned or successfully transferred resource has a
\* cache entry afterwards.
C6_BatchSkipsUrlLess ==
  last.op = "download_dataset" =>
     /\ last.status = "return" =>
          /\ Published(last.name) /\ last.remote = "none"
          /\ last.names = WithUrl(ResourcesOf(last.name))
          /\ \A n \in Range(last.names) : <<last.name, n>> \in cache
     /\ (Published(last.name) /\ last.remote = "none" /\ last.status = "raise") =>
          /\ last.exc = "HTTPError"
          /\ \E t \in Range(last.transports) : ~t[4]
     /\ \A d \in Range(last.downloads) :
          \E r \in Named(last.name, d[2]) : HasUrl(r)
     /\ \A t \in Range(last.transports) :
          t[4] => <<t[1], t[2]>> \in cache

\* C6 witness: a batch over two resources, the first url-less, returns one
C6_Witness ==
  /\ last.op = "download_dataset"
  /\ last.status = "return"
  /\ Len(ResourcesOf(last.name)) = 2
  /\ ~HasUrl(ResourcesOf(last.name)[1])
  /\ Len(last.names) = 1

\* C7: starting from an empty cache, is_file_cached answers true exactly
\* for the pairs some earlier transport call of download_file completed
\* for; it issues no catalog query and changes nothing.
C7_CachedIffDownloaded ==
  [][ last'.op = "is_file_cached" =>
        /\ last'.status = "return"
        /\ last'.flag = (<<last'.name, last'.filename>> \in succeeded)
        /\ last'.queries = 0
        /\ last'.transports = <<>>
        /\ cache' = cache ]_vars

\* C7 witness: true for one file of a dataset while another file of the
\* same dataset has no completed download
C7_Witness ==
  /\ last.op = "is_file_cached"
  /\ last.flag
  /\ \E f \in FileNames : <<last.name, f>> \notin succeeded

\* the declared format of the resource the observed load matched
DeclaredFormat ==
  FirstNamed(ResourcesOf(last.name), last.filename).format

\* C8: after a successful download in load, load_file is invoked, with the
\* lower-cased format, exactly when smart_return is set and the declared
\* format lower-cased is in SMART_RETURN_FILETYPES, and then its object is
\* what load returns; otherwise load returns the local path. No call hands
\* load_file a format outside the set.
C8_SmartReturnDispatch ==
  /\ \A l \in Range(last.loads) : l[2] \in SMART_RETURN_FILETYPES
  /\ last.loads # <<>> => last.op = "load"
  /\ ( last.op = "load" /\ last.downloads # <<>> /\ last.exc # "HTTPError" ) =>
       IF last.smart /\ Lower(DeclaredFormat) \in SMART_RETURN_FILETYPES
         THEN /\ last.loads = << <<get_file_path(last.name, last.filename),
                                   Lower(DeclaredFormat)>> >>
              /\ last.status = "return" => last.vkind = "object"
              /\ last.status = "raise" => last.exc = "LoaderError"
         ELSE /\ last.loads = <<>>
              /\ last.status = "return"
              /\ last.vkind = "path"
              /\ last.path = get_file_path(last.name, last.filename)

\* C8 witness: a format declared in upper case is loaded into an object
C8_Witness ==
  /\ last.op = "load"
  /\ last.vkind = "object"
  /\ DeclaredFormat = <<"C", "S", "V">>


\* C9: load checks in a fixed order and stops at the first failing check:
\* dataset absent, filename omitted (the list of options, for every
\* published dataset), filename not among the resource names, url missing;
\* a failing check is preceded by no download and no cache change; when all
\* pass download_file is invoked exactly once, and load_file only after it
\* has returned.
C9_ChecksInOrder ==
  [][ ( last'.op = "load" /\ last'.remote \in {"none", "NotFound"} ) =>
      LET failsWith(m, opts) ==
            /\ last'.status = "raise"
            /\ last'.exc = "ValueError"
            /\ last'.msg = m
            /\ last'.options = opts
            /\ last'.downloads = <<>>
            /\ last'.transports = <<>>
            /\ last'.loads = <<>>
            /\ cache' = cache
          names == NameValues(ResourcesOf(last'.name))
      IN  IF ~Published(last'.name)
            THEN failsWith("DatasetNotFound", <<>>)
          ELSE IF last'.filename = None
            THEN failsWith("ListOptions", names)
          ELSE IF Named(last'.name, last'.filename) = {}
            THEN failsWith("FileNotFound", names)
          ELSE IF \E r \in Named(last'.name, last'.filename) : ~HasUrl(r)
            THEN failsWith("MissingURL", <<>>)
          ELSE /\ Len(last'.downloads) = 1
               /\ last'.loads # <<>> => last'.exc # "HTTPError"
    ]_vars

\* C10: every load issues the catalog query, also without reload and with
\* the file cached; load returns only if the catalog answered with a
\* resource list that has the filename with a url; if the catalog faults or
\* does not list the dataset or the file, load raises without invoking
\* download_file and leaves the cache, the file's entry included, as it was.
C10_CatalogBeforeCache ==
  [][ last'.op = "load" =>
        /\ last'.queries = 1
        /\ last'.status = "return" =>
             /\ last'.remote = "none"
             /\ \E r \in Named(last'.name, last'.filename) : HasUrl(r)
        /\ ( last'.remote # "none" \/ Named(last'.name, last'.filename) = {} ) =>
             /\ last'.status = "raise"
             /\ last'.downloads = <<>>
             /\ cache' = cache
    ]_vars

\* C10 witness: without reload, a cached file the catalog no longer lists
\* is refused, and its cache entry is still there
C10_Witness ==
  /\ last.op = "load"
  /\ ~last.force
  /\ last.msg \in {"FileNotFound", "DatasetNotFound"}
  /\ last.filename # None
  /\ <<last.name, last.filename>> \in cache

====
